---- MODULE Spec2Model ----
(***************************************************************************)
(* Model of deepagents_cli/mcp_tools.py: discovery of MCP servers from a   *)
(* .mcp.json document, the per-server connection sequence inside one       *)
(* AsyncExitStack scope, the tool adapters built from the listed           *)
(* capabilities, their invocation, and the teardown of the scope.          *)
(*                                                                         *)
(* Python str values are sequences of one-character strings, so that       *)
(* sorting, concatenation and splitting are computed and not assumed.      *)
(* JSON values are records [t, v]: t is the Python type after json.loads   *)
(* ("dict", "str", "list", "num", "null"), v the payload: the characters   *)
(* of a str, the digits of a num, the elements of a list, the <<key,       *)
(* value>> items of a dict in insertion order, <<>> for None.              *)
(***************************************************************************)
EXTENDS Integers, Sequences, FiniteSets, TLC

\* The number of server entries in a generated configuration.
MaxServers == 2

\* The number of top-level fields, next to the server groups, in a generated
\* document given to extract_mcp_servers.
MaxRootKeys == 2

\* The number of content blocks in a generated CallToolResult given to
\* _format_call_tool_result.
MaxBlocks == 2

\* The length of a generated command string given to
\* _normalize_stdio_command.
MaxCmdLen == 4

----------------------------------------------------------------------------
\* Characters in code point order: Python compares str by code point.
Ascii ==
    << "\n", " ", "\"", "$", "-", "/", "1", ":", "B", "C", "M", "P", "S", "[",
       "]", "_", "a", "b", "c", "d", "e", "f", "g", "h", "i", "k", "l", "m",
       "n", "o", "p", "q", "r", "s", "t", "u", "v", "x", "y", "{", "}" >>

Ord(c) == CHOOSE i \in 1..Len(Ascii) : Ascii[i] = c

\* a < b for two str values (lexicographic by code point, a prefix first).
RECURSIVE StrLess(_, _)
StrLess(a, b) ==
    IF b = <<>> THEN FALSE
    ELSE IF a = <<>> THEN TRUE
    ELSE IF Head(a) = Head(b) THEN StrLess(Tail(a), Tail(b))
    ELSE Ord(Head(a)) < Ord(Head(b))

kMcpServers == <<"m", "c", "p", "S", "e", "r", "v", "e", "r", "s">>
kServers == <<"s", "e", "r", "v", "e", "r", "s">>
kSchema == <<"$", "s", "c", "h", "e", "m", "a">>
kVersion == <<"v", "e", "r", "s", "i", "o", "n">>
kInputs == <<"i", "n", "p", "u", "t", "s">>
kEnv == <<"e", "n", "v">>
kCommand == <<"c", "o", "m", "m", "a", "n", "d">>
kUrl == <<"u", "r", "l">>
kType == <<"t", "y", "p", "e">>
kArgs == <<"a", "r", "g", "s">>
sSse == <<"s", "s", "e">>
sHttp == <<"h", "t", "t", "p">>
sNpx == <<"n", "p", "x">>
sNpxY == <<"n", "p", "x", " ", "-", "y">>
sDashY == <<"-", "y">>
sUrl == <<"h", "t", "t", "p", "s", ":", "/", "/", "h">>
sSep == <<"_", "_">>
sFallback ==
    << "M", "C", "P", " ", "t", "o", "o", "l", " ", "c", "a", "l", "l", " ",
       "f", "a", "i", "l", "e", "d" >>
sBoom == <<"b", "o", "o", "m">>
sOk == <<"o", "k">>
sHello == <<"h", "e", "l", "l", "o">>
sMcpRemote == <<"m", "c", "p", "-", "r", "e", "m", "o", "t", "e">>
sExampleUrl ==
    << "h", "t", "t", "p", "s", ":", "/", "/", "e", "x", "a", "m", "p", "l",
       "e", ".", "c", "o", "m" >>

----------------------------------------------------------------------------
\* JSON values as json.loads returns them.
JStr(s) == [t |-> "str", v |-> s]
JNum(digits) == [t |-> "num", v |-> digits]
JList(elems) == [t |-> "list", v |-> elems]
JDict(items) == [t |-> "dict", v |-> items]
None == [t |-> "null", v |-> <<>>]

IsDict(x) == x.t = "dict"
IsStr(x) == x.t = "str"
IsList(x) == x.t = "list"

\* key in d, for the items of a dict.
HasKey(items, k) == \E i \in 1..Len(items) : items[i][1] = k

\* d.get(k): the value, or None.
DictGet(items, k) ==
    IF HasKey(items, k)
    THEN items[CHOOSE i \in 1..Len(items) : items[i][1] = k][2]
    ELSE None

----------------------------------------------------------------------------
META_KEYS == {kSchema, kVersion, kInputs, kEnv}

\* The indicator keys without "type".
has_command_or_url(cfg) == HasKey(cfg.v, kCommand) \/ HasKey(cfg.v, kUrl)

looks_like_server(cfg) ==
    HasKey(cfg.v, kCommand) \/ HasKey(cfg.v, kUrl) \/ HasKey(cfg.v, kType)

\* The "servers" group looked up before the "mcpServers" group.
extract_alternate_first(data) ==
    IF ~IsDict(data) THEN <<>>
    ELSE IF IsDict(DictGet(data.v, kServers))
    THEN DictGet(data.v, kServers).v
    ELSE IF IsDict(DictGet(data.v, kMcpServers))
    THEN DictGet(data.v, kMcpServers).v
    ELSE LET candidate == SelectSeq(data.v, LAMBDA kv : kv[1] \notin META_KEYS)
         IN  IF candidate = <<>>
                \/ \E i \in 1..Len(candidate) : ~IsDict(candidate[i][2])
             THEN <<>>
             ELSE IF \A i \in 1..Len(candidate) :
                         looks_like_server(candidate[i][2])
             THEN candidate
             ELSE <<>>

\* extract_mcp_servers: the items of the returned dict.
extract_mcp_servers(data) ==
    IF ~IsDict(data) THEN <<>>
    ELSE IF IsDict(DictGet(data.v, kMcpServers))
    THEN DictGet(data.v, kMcpServers).v
    ELSE IF IsDict(DictGet(data.v, kServers))
    THEN DictGet(data.v, kServers).v
    ELSE LET candidate == SelectSeq(data.v, LAMBDA kv : kv[1] \notin META_KEYS)
         IN  IF candidate = <<>>
                \/ \E i \in 1..Len(candidate) : ~IsDict(candidate[i][2])
             THEN <<>>
             ELSE IF \A i \in 1..Len(candidate) :
                         looks_like_server(candidate[i][2])
             THEN candidate
             ELSE <<>>

----------------------------------------------------------------------------
\* str.isspace for the characters of the alphabet.
IsSpace(ch) == ch \in {" ", "\n"}

\* shlex.split (posix, no comments) for a str without ' and \ : the lexer's
\* states are "sp" (between tokens), "a" (in a token) and "q" (in double
\* quotes); quoted says the token saw a quote, so that "" is a token.
\* ok is FALSE for ValueError("No closing quotation").
RECURSIVE ShlexTokens(_, _, _, _)
ShlexTokens(s, cur, quoted, state) ==
    IF s = <<>>
    THEN IF state = "q" THEN [ok |-> FALSE, tokens |-> <<>>]
         ELSE IF cur # <<>> \/ quoted THEN [ok |-> TRUE, tokens |-> <<cur>>]
         ELSE [ok |-> TRUE, tokens |-> <<>>]
    ELSE LET c == Head(s)
             emit(rest) == [ok |-> rest.ok, tokens |-> <<cur>> \o rest.tokens]
         IN  CASE state = "sp" ->
                    IF IsSpace(c) THEN ShlexTokens(Tail(s), <<>>, FALSE, "sp")
                    ELSE IF c = "\"" THEN ShlexTokens(Tail(s), <<>>, TRUE, "q")
                    ELSE ShlexTokens(Tail(s), <<c>>, FALSE, "a")
               [] state = "q" ->
                    IF c = "\"" THEN ShlexTokens(Tail(s), cur, TRUE, "a")
                    ELSE ShlexTokens(Tail(s), Append(cur, c), TRUE, "q")
               [] OTHER ->
                    IF IsSpace(c)
                    THEN emit(ShlexTokens(Tail(s), <<>>, FALSE, "sp"))
                    ELSE IF c = "\"" THEN ShlexTokens(Tail(s), cur, TRUE, "q")
                    ELSE ShlexTokens(Tail(s), Append(cur, c), quoted, "a")

shlex_split(s) == ShlexTokens(s, <<>>, FALSE, "sp")

\* str(a) for an element of args: a str is itself.
StrOf(a) == a.v

Normalized(command, args) ==
    [raises |-> FALSE, command |-> command, args |-> args]

\* The command never split.
normalize_unsplit(raw_command, raw_args) ==
    LET command == IF IsStr(raw_command) THEN raw_command.v ELSE <<>>
        args0 == IF IsList(raw_args) THEN raw_args.v ELSE <<>>
    IN  Normalized(command, [i \in 1..Len(args0) |-> StrOf(args0[i])])

\* _normalize_stdio_command: the command and args returned, or raises when
\* shlex.split raises ValueError.
normalize_stdio_command(raw_command, raw_args) ==
    LET command == IF IsStr(raw_command) THEN raw_command.v ELSE <<>>
        args0 == IF IsList(raw_args) THEN raw_args.v ELSE <<>>
        args == [i \in 1..Len(args0) |-> StrOf(args0[i])]
    IN  IF command # <<>> /\ args # <<>> THEN Normalized(command, args)
        ELSE IF command # <<>> /\ args = <<>>
                /\ (\E i \in 1..Len(command) : IsSpace(command[i]))
        THEN LET split == shlex_split(command)
             IN  IF ~split.ok
                 THEN [raises |-> TRUE, command |-> <<>>, args |-> <<>>]
                 ELSE IF split.tokens # <<>>
                 THEN Normalized(Head(split.tokens), Tail(split.tokens))
                 ELSE Normalized(command, args)
        ELSE Normalized(command, args)

----------------------------------------------------------------------------
\* json.dumps(x, indent=2, ensure_ascii=False) for a str, a num, or a dict
\* of such values.
JsonScalar(x) == IF IsStr(x) THEN <<"\"">> \o x.v \o <<"\"">> ELSE x.v

JsonMember(kv) ==
    <<" ", " ", "\"">> \o kv[1] \o <<"\"", ":", " ">> \o JsonScalar(kv[2])

RECURSIVE JsonMembers(_)
JsonMembers(items) ==
    IF Len(items) = 1 THEN JsonMember(items[1])
    ELSE JsonMember(Head(items)) \o <<",", "\n">> \o JsonMembers(Tail(items))

json_dumps(x) ==
    IF ~IsDict(x) THEN JsonScalar(x)
    ELSE IF x.v = <<>> THEN <<"{", "}">>
    ELSE <<"{", "\n">> \o JsonMembers(x.v) \o <<"\n", "}">>

\* The part one content block contributes: its text, or its serialization.
BlockPart(block) == IF block.type = "text" THEN block.text ELSE block.dump

\* "\n".join(p for p in parts if p)
RECURSIVE JoinLines(_)
JoinLines(parts) ==
    LET kept == SelectSeq(parts, LAMBDA p : p # <<>>)
    IN  IF kept = <<>> THEN <<>>
        ELSE IF Len(kept) = 1 THEN kept[1]
        ELSE kept[1] \o <<"\n">> \o JoinLines(Tail(kept))

\* The content blocks taken before the structured payload.
format_content_first(result) ==
    IF result.content # <<>>
    THEN JoinLines([i \in 1..Len(result.content) |->
                       BlockPart(result.content[i])])
    ELSE IF result.structuredContent.t # "null"
    THEN json_dumps(result.structuredContent)
    ELSE <<>>

\* _format_call_tool_result
format_call_tool_result(result) ==
    IF result.structuredContent.t # "null"
    THEN json_dumps(result.structuredContent)
    ELSE IF result.content = <<>> THEN <<>>
    ELSE JoinLines([i \in 1..Len(result.content) |->
                       BlockPart(result.content[i])])

----------------------------------------------------------------------------
\* Inputs: the configuration documents and what the remote servers do.

nB == <<"B">>
nA == <<"a">>
nAU == <<"a", "_">>
ServerNames == <<nB, nA, nAU>>

cX == <<"x">>
cUX == <<"_", "x">>
CapNames == {cX, cUX}

cfgStdio ==
    JDict(<< <<kCommand, JStr(sNpx)>>, <<kArgs, JList(<<JStr(sDashY)>>)>> >>)
cfgStdioUrl == JDict(<< <<kCommand, JStr(sNpxY)>>, <<kUrl, JStr(sUrl)>> >>)
cfgBlankCommand == JDict(<< <<kCommand, JStr(<<" ">>)>> >>)
cfgEmptyCommand == JDict(<< <<kCommand, JStr(<<>>)>> >>)
cfgNullCommand == JDict(<< <<kCommand, None>>, <<kUrl, JStr(sUrl)>> >>)
cfgQuotedCommand ==
    JDict(<< <<kCommand, JStr(<<"\"", "n", "p", "x", "\"", " ", "-", "y">>)>> >>)
cfgEmptyQuoted ==
    JDict(<< <<kCommand, JStr(<<"\"", "\"", " ", "-", "y">>)>> >>)
cfgUnclosedQuote ==
    JDict(<< <<kCommand, JStr(<<"n", "p", "x", " ", "\"", "y">>)>> >>)
cfgArgsNotList ==
    JDict(<< <<kCommand, JStr(sNpx)>>, <<kArgs, JStr(sDashY)>> >>)
cfgEnvNotMapping ==
    JDict(<< <<kCommand, JStr(sNpx)>>, <<kEnv, JStr(sOk)>> >>)
cfgStdioEnv ==
    JDict(<< <<kCommand, JStr(sNpx)>>,
             <<kEnv, JDict(<< <<nA, JStr(sOk)>> >>)>> >>)
cfgStdioEmptyArgs ==
    JDict(<< <<kCommand, JStr(sNpxY)>>, <<kArgs, JList(<<>>)>> >>)
cfgUrlNumber == JDict(<< <<kUrl, JNum(<<"1">>)>> >>)
cfgListEntry == JList(<<JStr(sNpx)>>)
cfgHttp == JDict(<< <<kUrl, JStr(sUrl)>> >>)
cfgHttpTyped == JDict(<< <<kUrl, JStr(sUrl)>>, <<kType, JStr(sHttp)>> >>)
cfgUrlOddType == JDict(<< <<kType, JStr(sNpx)>>, <<kUrl, JStr(sUrl)>> >>)
cfgSse == JDict(<< <<kUrl, JStr(sUrl)>>, <<kType, JStr(sSse)>> >>)
cfgEmptyUrl == JDict(<< <<kUrl, JStr(<<>>)>>, <<kType, JStr(sSse)>> >>)
cfgTypeOnly == JDict(<< <<kType, JStr(sSse)>> >>)
cfgNotObject == JStr(sNpx)

\* Server definitions given to the names of ServerNames, in that order.
Profiles ==
    << <<cfgNotObject, cfgHttp, cfgSse>>,
       <<cfgStdio, cfgEmptyCommand, cfgTypeOnly>>,
       <<cfgStdioUrl, cfgHttpTyped, cfgEmptyUrl>>,
       <<cfgBlankCommand, cfgNullCommand, cfgUrlOddType>>,
       <<cfgUnclosedQuote, cfgQuotedCommand, cfgEmptyQuoted>>,
       <<cfgArgsNotList, cfgEnvNotMapping, cfgUrlNumber>>,
       <<cfgStdioEnv, cfgStdioEmptyArgs, cfgListEntry>> >>

NameSeqs ==
    UNION { { s \in [1..n -> 1..Len(ServerNames)] :
                \A i, j \in 1..n : i # j => s[i] # s[j] } :
            n \in 1..MaxServers }

\* The items of a server-group mapping, in the order of the document.
ServerMaps ==
    { [i \in 1..Len(s) |-> <<ServerNames[s[i]], Profiles[p][s[i]]>>] :
        s \in NameSeqs, p \in 1..Len(Profiles) }

Documents ==
    { JDict(<< <<kMcpServers, JDict(m)>> >>) : m \in ServerMaps }
    \cup
    { JList(<<>>),
      JDict(<<>>),
      JDict(<< <<kMcpServers, JDict(<<>>)>> >>),
      JDict(<< <<kVersion, JStr(<<"1">>)>> >>),
      JDict(<< <<kMcpServers, JStr(sNpx)>>,
               <<kServers, JDict(<< <<nA, cfgHttp>> >>)>> >>),
      JDict(<< <<kSchema, JStr(sUrl)>>, <<nAU, cfgSse>>, <<nA, cfgStdio>> >>),
      JDict(<< <<nA, cfgHttp>>, <<nB, JDict(<<>>)>> >>) }

\* find_mcp_config_path and read_text/json.loads: no file, a file that
\* cannot be read or parsed, or a parsed document.
ConfigFiles ==
    { [found |-> FALSE, parsed |-> FALSE, data |-> None],
      [found |-> TRUE, parsed |-> FALSE, data |-> None] }
    \cup { [found |-> TRUE, parsed |-> TRUE, data |-> d] : d \in Documents }

\* What list_tools reports: capability names, distinct within one server.
CapLists ==
    { s \in UNION { [1..n -> CapNames] : n \in 0..Cardinality(CapNames) } :
        \A i, j \in DOMAIN s : i # j => s[i] # s[j] }

----------------------------------------------------------------------------
VARIABLES
    cfgFile,      \* the configuration file found from start_path
    pc,           \* where open_mcp_toolset stands
    queue,        \* sorted(servers.items()), the list the loop walks
    idx,          \* position of the loop in queue
    stack,        \* the AsyncExitStack: registered contexts, oldest first
    open,         \* contexts entered and not yet exited
    initialized,  \* servers whose session completed initialize()
    listed,       \* listed.tools of the current server
    tools,        \* the local tools list
    errors,       \* the local errors list
    result,       \* the McpToolset yielded to the caller
    raised,       \* an exception left open_mcp_toolset
    attempts,     \* history: transports that were asked to open
    acquired,     \* history: contexts entered, in order
    released,     \* history: contexts exited, in order
    history,      \* history: per server attempted, where it failed and
                  \*   what its list_tools reported
    lastCall,     \* the latest invocation of a tool adapter
    arg,          \* the argument of a helper function called on its own
    ret           \* what that call returned

vars ==
    << cfgFile, pc, queue, idx, stack, open, initialized, listed, tools,
       errors, result, raised, attempts, acquired, released, history,
       lastCall, arg, ret >>

NoResult == [tools |-> <<>>, config_path |-> "unset", errors |-> <<>>]
NoCall == [tool |-> 0]
NoArg == [fn |-> "none"]
NoRet == [done |-> FALSE]

McpToolset(t, path, e) == [tools |-> t, config_path |-> path, errors |-> e]

\* config_path as the caller sees it.
ConfigPath == ".mcp.json"

\* Nothing of open_mcp_toolset has run.
Idle ==
    /\ pc = "start"
    /\ queue = <<>>
    /\ idx = 1
    /\ stack = <<>>
    /\ open = {}
    /\ initialized = {}
    /\ listed = <<>>
    /\ tools = <<>>
    /\ errors = <<>>
    /\ result = NoResult
    /\ raised = FALSE
    /\ attempts = <<>>
    /\ acquired = <<>>
    /\ released = <<>>
    /\ history = <<>>
    /\ lastCall = NoCall

Init ==
    /\ cfgFile \in ConfigFiles
    /\ Idle
    /\ arg = NoArg
    /\ ret = NoRet

----------------------------------------------------------------------------
\* sorted(items, key=lambda kv: kv[0]): a stable insertion by key.
RECURSIVE InsertByName(_, _)
InsertByName(kv, s) ==
    IF s = <<>> THEN <<kv>>
    ELSE IF StrLess(Head(s)[1], kv[1])
    THEN <<Head(s)>> \o InsertByName(kv, Tail(s))
    ELSE <<kv>> \o s

RECURSIVE SortedItems(_)
SortedItems(items) ==
    IF items = <<>> THEN <<>>
    ELSE InsertByName(Head(items), SortedItems(Tail(items)))

\* The items in the order of the document.
unsorted(items) == items

sorted_by_name(items) == SortedItems(items)

\* The error strings, by what they are built from.
ReadError == [kind |-> "failed_to_read", server |-> <<>>, exc |-> "Exception"]
NoServersError == [kind |-> "no_servers", server |-> <<>>, exc |-> ""]
NotObjectError(name) == [kind |-> "not_object", server |-> name, exc |-> ""]
ConnectError(name, exc) ==
    [kind |-> "failed_to_connect", server |-> name, exc |-> exc]

\* The early results without the check of line 161.
early_result_unchecked(file) ==
    IF ~file.found THEN McpToolset(<<>>, "None", <<>>)
    ELSE IF ~file.parsed THEN McpToolset(<<>>, ConfigPath, <<ReadError>>)
    ELSE NoResult

\* Lines 144-170: the toolset yielded before any connection is tried, or
\* NoResult when the document names servers.
early_result(file) ==
    IF ~file.found THEN McpToolset(<<>>, "None", <<>>)
    ELSE IF ~file.parsed THEN McpToolset(<<>>, ConfigPath, <<ReadError>>)
    ELSE IF extract_mcp_servers(file.data) = <<>>
    THEN McpToolset(<<>>, ConfigPath, <<NoServersError>>)
    ELSE NoResult

\* Lines 144-181: locate, read, normalize; either yield an empty toolset and
\* return, or enter the AsyncExitStack and start the loop over the sorted
\* servers.
Start ==
    /\ pc = "start"
    /\ IF early_result(cfgFile) # NoResult
       THEN /\ result' = early_result(cfgFile)
            /\ pc' = "yielded"
            /\ queue' = queue
       ELSE /\ queue' = sorted_by_name(extract_mcp_servers(cfgFile.data))
            /\ pc' = "connect"
            /\ result' = result
    /\ UNCHANGED << arg, ret >>
    /\ UNCHANGED << cfgFile, idx, stack, open, initialized, listed, tools,
                    errors, raised, attempts, acquired, released, history,
                    lastCall >>

----------------------------------------------------------------------------
\* The contexts the loop enters.
Transport(name, binding) ==
    [kind |-> "transport", server |-> name, binding |-> binding]
Session(name) == [kind |-> "session", server |-> name, binding |-> "session"]

\* Lines 192-224: which client the definition selects and with what
\* parameters; binding "none" is the ValueError raised before any client.
NoTransport(msg) ==
    [binding |-> "none", command |-> <<>>, args |-> <<>>, env |-> <<>>,
     url |-> <<>>, error |-> msg]

\* Lines 188-189 and 199: the env given to StdioServerParameters, the items
\* of cfg["env"] when it is a dict; <<>> is None, also for an empty dict.
stdio_env(cfg) ==
    LET env == DictGet(cfg.v, kEnv)
    IN  IF IsDict(env)
        THEN [i \in 1..Len(env.v) |-> <<env.v[i][1], StrOf(env.v[i][2])>>]
        ELSE <<>>

\* The url branch tried before the command branch.
transport_selection_url_first(cfg) ==
    IF HasKey(cfg.v, kUrl)
    THEN LET url == DictGet(cfg.v, kUrl)
         IN  IF ~IsStr(url) \/ url.v = <<>>
             THEN NoTransport("Missing 'url' for HTTP/SSE MCP server")
             ELSE IF IsStr(DictGet(cfg.v, kType))
                     /\ DictGet(cfg.v, kType).v = sSse
             THEN [binding |-> "sse", command |-> <<>>, args |-> <<>>,
                   env |-> <<>>, url |-> url.v, error |-> ""]
             ELSE [binding |-> "http", command |-> <<>>, args |-> <<>>,
                   env |-> <<>>, url |-> url.v, error |-> ""]
    ELSE IF HasKey(cfg.v, kCommand)
    THEN LET n == normalize_stdio_command(DictGet(cfg.v, kCommand),
                                          DictGet(cfg.v, kArgs))
         IN  IF n.raises THEN NoTransport("No closing quotation")
             ELSE IF n.command = <<>>
             THEN NoTransport("Missing 'command' for stdio MCP server")
             ELSE [binding |-> "stdio", command |-> n.command,
                   args |-> n.args, env |-> stdio_env(cfg), url |-> <<>>,
                   error |-> ""]
    ELSE NoTransport("Expected either 'command' or 'url' in MCP server config")

transport_selection(cfg) ==
    IF HasKey(cfg.v, kCommand)
    THEN LET n == normalize_stdio_command(DictGet(cfg.v, kCommand),
                                          DictGet(cfg.v, kArgs))
         IN  IF n.raises THEN NoTransport("No closing quotation")
             ELSE IF n.command = <<>>
             THEN NoTransport("Missing 'command' for stdio MCP server")
             ELSE [binding |-> "stdio", command |-> n.command,
                   args |-> n.args, env |-> stdio_env(cfg), url |-> <<>>,
                   error |-> ""]
    ELSE IF HasKey(cfg.v, kUrl)
    THEN LET url == DictGet(cfg.v, kUrl)
         IN  IF ~IsStr(url) \/ url.v = <<>>
             THEN NoTransport("Missing 'url' for HTTP/SSE MCP server")
             ELSE IF IsStr(DictGet(cfg.v, kType))
                     /\ DictGet(cfg.v, kType).v = sSse
             THEN [binding |-> "sse", command |-> <<>>, args |-> <<>>,
                   env |-> <<>>, url |-> url.v, error |-> ""]
             ELSE [binding |-> "http", command |-> <<>>, args |-> <<>>,
                   env |-> <<>>, url |-> url.v, error |-> ""]
    ELSE NoTransport("Expected either 'command' or 'url' in MCP server config")

\* A transport entered by hand and not on the stack.
enter_sessions_only(stk, cm) ==
    IF cm.kind = "transport" THEN stk ELSE Append(stk, cm)

\* A session entered by hand and not on the stack.
enter_transports_only(stk, cm) ==
    IF cm.kind = "session" THEN stk ELSE Append(stk, cm)

\* stack.enter_async_context(cm), once cm has been entered.
enter_async_context(stk, cm) == Append(stk, cm)

\* A handler that takes configuration errors only.
except_ValueError(exc) == exc = "ValueError"

\* except Exception (line 271): the exceptions the handler takes.
except_Exception(exc) ==
    exc \in {"ValueError", "OSError", "RuntimeError", "McpError",
             "AttributeError"}

server_name == queue[idx][1]
cfg_obj == queue[idx][2]

Outcome(name, step, caps) ==
    [server |-> name, failed |-> step, reported |-> caps]

\* Lines 271-275, or the exception leaving the async with block; step is
\* where the attempt failed.
Fail(step, exc) ==
    /\ history' = Append(history, Outcome(server_name, step, listed))
    /\ IF except_Exception(exc)
       THEN /\ errors' = Append(errors, ConnectError(server_name, exc))
            /\ idx' = idx + 1
            /\ pc' = "connect"
            /\ raised' = raised
       ELSE /\ errors' = errors
            /\ idx' = idx
            /\ pc' = "closing"
            /\ raised' = TRUE

Enter(cm) ==
    /\ stack' = enter_async_context(stack, cm)
    /\ open' = open \cup {cm}
    /\ acquired' = Append(acquired, cm)

\* Lines 181-224: the next server of the loop, up to the transport's open.
SelectTransport ==
    /\ pc = "connect"
    /\ idx <= Len(queue)
    /\ IF ~IsDict(cfg_obj)
       THEN /\ errors' = Append(errors, NotObjectError(server_name))
            /\ history' = Append(history, Outcome(server_name, "config", <<>>))
            /\ idx' = idx + 1
            /\ UNCHANGED << pc, raised, stack, open, acquired, attempts >>
       ELSE LET sel == transport_selection(cfg_obj)
            IN  IF sel.binding = "none"
                THEN /\ Fail("config", "ValueError")
                     /\ UNCHANGED << stack, open, acquired, attempts >>
                ELSE /\ attempts' = Append(attempts,
                                           [server |-> server_name, sel |-> sel])
                     /\ \E ok \in BOOLEAN :
                          IF ok
                          THEN /\ Enter(Transport(server_name, sel.binding))
                               /\ pc' = "session"
                               /\ UNCHANGED << errors, idx, raised, history >>
                          ELSE /\ Fail("transport", "OSError")
                               /\ UNCHANGED << stack, open, acquired >>
    /\ UNCHANGED << arg, ret >>
    /\ UNCHANGED << cfgFile, queue, initialized, listed, tools, result,
                    released, lastCall >>

\* Line 226: ClientSession(read, write) entered on the stack.
CreateSession ==
    /\ pc = "session"
    /\ \E ok \in BOOLEAN :
         IF ok
         THEN /\ Enter(Session(server_name))
              /\ pc' = "initialize"
              /\ UNCHANGED << errors, idx, raised, history >>
         ELSE /\ Fail("session", "RuntimeError")
              /\ UNCHANGED << stack, open, acquired >>
    /\ UNCHANGED << arg, ret >>
    /\ UNCHANGED << cfgFile, queue, initialized, listed, tools, result,
                    attempts, released, lastCall >>

\* Line 227: session.initialize().
Initialize ==
    /\ pc = "initialize"
    /\ \E ok \in BOOLEAN :
         IF ok
         THEN /\ initialized' = initialized \cup {server_name}
              /\ pc' = "list_tools"
              /\ UNCHANGED << errors, idx, raised, history >>
         ELSE /\ Fail("initialize", "McpError")
              /\ UNCHANGED initialized
    /\ UNCHANGED << arg, ret >>
    /\ UNCHANGED << cfgFile, queue, stack, open, listed, tools, result,
                    attempts, acquired, released, lastCall >>

\* Line 228: session.list_tools().
ListTools ==
    /\ pc = "list_tools"
    /\ \/ /\ \E caps \in CapLists : listed' = caps
          /\ pc' = "build"
          /\ UNCHANGED << errors, idx, raised, history >>
       \/ /\ Fail("list_tools", "McpError")
          /\ UNCHANGED listed
    /\ UNCHANGED << arg, ret >>
    /\ UNCHANGED << cfgFile, queue, stack, open, initialized, tools, result,
                    attempts, acquired, released, lastCall >>

\* Line 232.
tool_name(server, capability) == server \o sSep \o capability

\* Line 266.
mcp_transport(cfg) == IF HasKey(cfg.v, kCommand) THEN "stdio" ELSE "http"

\* Lines 244-269: the adapter of one capability; _session and
\* _mcp_tool_name are the defaults bound when the function is defined.
Adapter(server, cfg, capability) ==
    [name |-> tool_name(server, capability),
     _session |-> server,
     _mcp_tool_name |-> capability,
     metadata |-> [mcp_server |-> server, mcp_tool |-> capability,
                   mcp_transport |-> mcp_transport(cfg)]]

\* The list rebound to the new adapters.
tools_assign(ts, adapters) == adapters

\* Line 256: tools.append, for the adapters built in order.
tools_append(ts, adapters) == ts \o adapters

\* Lines 230-269: one adapter per listed capability, in order; failAt is the
\* capability at which building raises (0: none does).
BuildAdapters ==
    /\ pc = "build"
    /\ \E failAt \in 0..Len(listed) :
         LET n == IF failAt = 0 THEN Len(listed) ELSE failAt - 1
         IN  /\ tools' = tools_append(tools,
                         [i \in 1..n |-> Adapter(server_name, cfg_obj, listed[i])])
             /\ IF failAt = 0
                THEN /\ idx' = idx + 1
                     /\ pc' = "connect"
                     /\ history' = Append(history,
                                          Outcome(server_name, "none", listed))
                     /\ UNCHANGED << errors, raised >>
                ELSE Fail("build", "AttributeError")
    /\ listed' = <<>>
    /\ UNCHANGED << arg, ret >>
    /\ UNCHANGED << cfgFile, queue, stack, open, initialized, result,
                    attempts, acquired, released, lastCall >>

\* Line 277: the toolset is handed to the caller inside the stack's scope.
YieldToolset ==
    /\ pc = "connect"
    /\ idx > Len(queue)
    /\ result' = McpToolset(tools, ConfigPath, errors)
    /\ pc' = "yielded"
    /\ UNCHANGED << arg, ret >>
    /\ UNCHANGED << cfgFile, queue, idx, stack, open, initialized, listed,
                    tools, errors, raised, attempts, acquired, released,
                    lastCall, history >>

----------------------------------------------------------------------------
\* Remote outcomes of call_tool (CallToolResult).
TextBlock(text) == [type |-> "text", text |-> text, dump |-> <<>>]
ImageBlock ==
    [type |-> "image", text |-> <<>>,
     dump |-> <<"{", "\"", "t", "\"", ":", "1", "}">>]

Contents ==
    { <<>>,
      <<TextBlock(sBoom)>>,
      <<TextBlock(<<>>)>>,
      <<TextBlock(sOk), ImageBlock>> }

Structured == JDict(<< <<nA, JNum(<<"1">>)>> >>)

Outcomes ==
    { [isError |-> e, structuredContent |-> None, content |-> c] :
        e \in BOOLEAN, c \in Contents }
    \cup
    { [isError |-> e, structuredContent |-> Structured,
       content |-> <<TextBlock(sBoom)>>] : e \in BOOLEAN }

NoOutcome == [isError |-> FALSE, structuredContent |-> None, content |-> <<>>]

\* The named arguments an invocation is given.
Kwargs ==
    { << >>,
      ("q" :> sHello),
      ("q" :> sHello @@ "_mcp_tool_name" :> cUX),
      ("q" :> sHello @@ "_session" :> sOk) }

\* Python's binding of the call's named arguments to the parameters
\* (*, _session=session, _mcp_tool_name=mcp_tool.name, **kwargs) of line 244.
Bind(tool, kw) ==
    [session_given |-> "_session" \in DOMAIN kw,
     _session |-> tool._session,
     _mcp_tool_name |-> IF "_mcp_tool_name" \in DOMAIN kw
                        THEN kw["_mcp_tool_name"]
                        ELSE tool._mcp_tool_name,
     kwargs |-> [k \in DOMAIN kw \ {"_session", "_mcp_tool_name"} |-> kw[k]]]

Call(i, kw, made, status, outcome, value) ==
    [tool |-> i, kwargs |-> kw, calls |-> made, status |-> status,
     outcome |-> outcome, value |-> value]

\* The normalized text as the message even when it is empty.
AfterCall_no_fallback(i, kw, made, res) ==
    IF res.isError
    THEN Call(i, kw, made, "ToolException", res, format_call_tool_result(res))
    ELSE Call(i, kw, made, "returned", res, format_call_tool_result(res))

\* Lines 250-254 once call_tool has returned result.
AfterCall(i, kw, made, res) ==
    IF res.isError
    THEN Call(i, kw, made, "ToolException", res,
              IF format_call_tool_result(res) # <<>>
              THEN format_call_tool_result(res)
              ELSE sFallback)
    ELSE Call(i, kw, made, "returned", res, format_call_tool_result(res))

\* Lines 244-254: the caller invokes one of the yielded tools.
Invoke ==
    /\ pc = "yielded"
    /\ lastCall = NoCall
    /\ \E i \in 1..Len(result.tools), kw \in Kwargs :
         LET b == Bind(result.tools[i], kw)
             made == << [session |-> b._session, name |-> b._mcp_tool_name,
                         arguments |-> b.kwargs] >>
         IN  IF b.session_given
             THEN lastCall' = Call(i, kw, <<>>, "AttributeError", NoOutcome, <<>>)
             ELSE \/ lastCall' = Call(i, kw, made, "McpError", NoOutcome, <<>>)
                  \/ \E res \in Outcomes : lastCall' = AfterCall(i, kw, made, res)
    /\ UNCHANGED << arg, ret >>
    /\ UNCHANGED << cfgFile, pc, queue, idx, stack, open, initialized, listed,
                    tools, errors, result, raised, attempts, acquired,
                    released, history >>

\* The invocation has returned to (or raised in) the caller, which goes on.
Return ==
    /\ pc = "yielded"
    /\ lastCall # NoCall
    /\ lastCall' = NoCall
    /\ UNCHANGED << arg, ret >>
    /\ UNCHANGED << cfgFile, pc, queue, idx, stack, open, initialized, listed,
                    tools, errors, result, raised, attempts, acquired,
                    released, history >>

\* The caller leaves the async with block: the generator resumes after its
\* yield and the AsyncExitStack starts to unwind.
ExitScope ==
    /\ pc = "yielded"
    /\ lastCall = NoCall
    /\ pc' = "closing"
    /\ UNCHANGED << arg, ret >>
    /\ UNCHANGED << cfgFile, queue, idx, stack, open, initialized, listed,
                    tools, errors, result, raised, attempts, acquired,
                    released, lastCall, history >>

\* AsyncExitStack.__aexit__ exits the registered contexts last in, first out:
\* the position in the stack of the next one to exit.
first_in_first_out(stk) == 1

next_to_exit(stk) == Len(stk)

Release ==
    /\ pc = "closing"
    /\ stack # <<>>
    /\ LET k == next_to_exit(stack)
       IN  /\ released' = Append(released, stack[k])
           /\ open' = open \ {stack[k]}
           /\ stack' = SubSeq(stack, 1, k - 1) \o SubSeq(stack, k + 1, Len(stack))
    /\ UNCHANGED << arg, ret >>
    /\ UNCHANGED << cfgFile, pc, queue, idx, initialized, listed, tools,
                    errors, result, raised, attempts, acquired, history,
                    lastCall >>

\* The stack is empty: open_mcp_toolset has exited.
Finish ==
    /\ pc = "closing"
    /\ stack = <<>>
    /\ pc' = "done"
    /\ UNCHANGED << arg, ret >>
    /\ UNCHANGED << cfgFile, queue, idx, stack, open, initialized, listed,
                    tools, errors, result, raised, attempts, acquired,
                    released, lastCall, history >>

Next ==
    \/ Start
    \/ SelectTransport
    \/ CreateSession
    \/ Initialize
    \/ ListTools
    \/ BuildAdapters
    \/ YieldToolset
    \/ Invoke
    \/ Return
    \/ ExitScope
    \/ Release
    \/ Finish

Spec == Init /\ [][Next]_vars

----------------------------------------------------------------------------
\* The helper functions called on their own, on generated arguments.

\* Top-level fields of a document: reserved keys, server definitions, an
\* object that does not look like a server, a value that is not an object.
RootPool ==
    << <<kSchema, JStr(sUrl)>>,
       <<kEnv, JDict(<< <<kCommand, JStr(sNpx)>> >>)>>,
       <<kVersion, JNum(<<"1">>)>>,
       <<kInputs, JList(<<>>)>>,
       <<nA, cfgHttp>>,
       <<nB, cfgStdio>>,
       <<nAU, cfgTypeOnly>>,
       <<cX, JDict(<< <<kArgs, JList(<<>>)>> >>)>>,
       <<cUX, JStr(sNpx)>> >>

RootFields ==
    UNION { { [i \in 1..n |-> RootPool[s[i]]] :
                s \in { q \in [1..n -> 1..Len(RootPool)] :
                          \A i, j \in 1..n : i < j => q[i] # q[j] } } :
            n \in 0..MaxRootKeys }

\* The "mcpServers" field: absent, a mapping, an empty mapping, not a mapping.
PrimaryFields ==
    { <<>>,
      << <<kMcpServers, JDict(<< <<nA, cfgStdio>>, <<nB, JStr(sNpx)>> >>)>> >>,
      << <<kMcpServers, JDict(<<>>)>> >>,
      << <<kMcpServers, JStr(sNpx)>> >>,
      << <<kMcpServers, None>> >> }

\* The "servers" field, likewise.
AlternateFields ==
    { <<>>,
      << <<kServers, JDict(<< <<nAU, cfgSse>> >>)>> >>,
      << <<kServers, JDict(<<>>)>> >>,
      << <<kServers, JList(<<>>)>> >> }

ExtractDocs ==
    { JDict(r \o p \o a) :
        r \in RootFields, p \in PrimaryFields, a \in AlternateFields }
    \cup { JList(<<>>), JStr(sNpx), None }

ExtractArgs == { [fn |-> "extract_mcp_servers", data |-> d] : d \in ExtractDocs }

Returned(value) == [done |-> TRUE, value |-> value]

\* extract_mcp_servers(data) called and returned.
CallExtract ==
    /\ arg.fn = "extract_mcp_servers"
    /\ ~ret.done
    /\ ret' = Returned(extract_mcp_servers(arg.data))
    /\ UNCHANGED << arg, cfgFile, pc, queue, idx, stack, open, initialized,
                    listed, tools, errors, result, raised, attempts, acquired,
                    released, history, lastCall >>

\* A block without a type attribute: it has a text and is not a text block.
UntypedBlock ==
    [type |-> "None", text |-> sOk, dump |-> <<"B", "(", ")">>]

BlockPool ==
    { TextBlock(sBoom), TextBlock(sOk), TextBlock(<<>>), ImageBlock,
      UntypedBlock }

StructuredPool ==
    { None,
      Structured,
      JDict(<<>>),
      JDict(<< <<nA, JStr(sOk)>>, <<nB, JNum(<<"1">>)>> >>) }

FormatArgs ==
    { [fn |-> "_format_call_tool_result",
       result |-> [isError |-> FALSE, structuredContent |-> sc, content |-> c]] :
        sc \in StructuredPool,
        c \in UNION { [1..n -> BlockPool] : n \in 0..MaxBlocks } }

\* _format_call_tool_result(result) called and returned.
CallFormat ==
    /\ arg.fn = "_format_call_tool_result"
    /\ ~ret.done
    /\ ret' = Returned(format_call_tool_result(arg.result))
    /\ UNCHANGED << arg, cfgFile, pc, queue, idx, stack, open, initialized,
                    listed, tools, errors, result, raised, attempts, acquired,
                    released, history, lastCall >>

\* The characters of a generated command: a letter, a dash, the two
\* whitespace characters of the alphabet and the double quote.
CmdChars == {"n", "-", " ", "\n", "\""}

CmdStrings ==
    UNION { [1..n -> CmdChars] : n \in 0..MaxCmdLen }
    \cup { sNpx \o <<" ">> \o sDashY \o <<" ">> \o sMcpRemote \o <<" ">>
             \o sExampleUrl }

\* cfg.get("command"): a str, None, or a value of another type.
RawCommands == { JStr(c) : c \in CmdStrings } \cup { None, JNum(<<"1">>) }

\* cfg.get("args"): None, a list of str, or a value of another type.
RawArgs ==
    { None,
      JList(<<>>),
      JList(<<JStr(sDashY)>>),
      JList(<<JStr(<<"n", " ", "n">>), JStr(<<>>)>>),
      JStr(sDashY) }

NormalizeArgs ==
    { [fn |-> "_normalize_stdio_command", raw_command |-> c, raw_args |-> a] :
        c \in RawCommands, a \in RawArgs }

\* _normalize_stdio_command(raw_command, raw_args) called and returned, or
\* raised.
CallNormalize ==
    /\ arg.fn = "_normalize_stdio_command"
    /\ ~ret.done
    /\ ret' = Returned(normalize_stdio_command(arg.raw_command, arg.raw_args))
    /\ UNCHANGED << arg, cfgFile, pc, queue, idx, stack, open, initialized,
                    listed, tools, errors, result, raised, attempts, acquired,
                    released, history, lastCall >>

HelperInit ==
    /\ cfgFile = [found |-> FALSE, parsed |-> FALSE, data |-> None]
    /\ Idle
    /\ arg \in ExtractArgs \cup FormatArgs \cup NormalizeArgs
    /\ ret = NoRet

HelperNext ==
    \/ CallExtract
    \/ CallFormat
    \/ CallNormalize

HelperSpec == HelperInit /\ [][HelperNext]_vars

----------------------------------------------------------------------------
\* What the claims speak of.

\* The names of the servers the document configures.
ConfigNames ==
    { extract_mcp_servers(cfgFile.data)[i][1] :
        i \in 1..Len(extract_mcp_servers(cfgFile.data)) }

\* The document names at least one server and the loop has handed over.
Handed == pc = "yielded" /\ cfgFile.parsed /\ ConfigNames # {}

Succeeded(i) == history[i].failed = "none"

ErrorsNaming(errs, name) == { k \in 1..Len(errs) : errs[k].server = name }

\* The tool of capability cap of server name is in ts.
HasTool(ts, name, cap) ==
    \E j \in 1..Len(ts) :
        /\ ts[j].name = name \o <<"_", "_">> \o cap
        /\ ts[j]._session = name

\* Every configured server was attempted once, the tools of every server
\* that succeeded are in the toolset, each failing server is named by
\* exactly one error.
C1_Isolation ==
    /\ ~raised
    /\ Handed =>
         /\ Len(history) = Cardinality(ConfigNames)
         /\ { history[i].server : i \in 1..Len(history) } = ConfigNames
         /\ \A i \in 1..Len(history) :
              IF Succeeded(i)
              THEN \A k \in 1..Len(history[i].reported) :
                     HasTool(result.tools, history[i].server,
                             history[i].reported[k])
              ELSE Cardinality(ErrorsNaming(result.errors,
                                            history[i].server)) = 1

\* C1 (as amended): open_mcp_toolset does not raise whichever servers fail
\* and at whichever step; it attempts every server and yields the tools of
\* every server that succeeded and exactly one error naming each failing
\* server; the tools list is not empty when a server that reported at least
\* one capability succeeded.
C1_FailuresAreIsolated ==
    /\ C1_Isolation
    /\ Handed /\ (\E i \in 1..Len(history) :
                     Succeeded(i) /\ history[i].reported # <<>>)
         => result.tools # <<>>

\* C1 as stated: the tools list is never empty when at least one server
\* succeeds.
C1_AsStated ==
    /\ C1_Isolation
    /\ Handed /\ (\E i \in 1..Len(history) : Succeeded(i))
         => result.tools # <<>>

\* A toolset with one server that failed in its handshake and one that
\* succeeded with tools.
C1_Witness ==
    /\ Handed
    /\ \E i, j \in 1..Len(history) :
         /\ history[i].failed = "initialize"
         /\ Succeeded(j)
         /\ history[j].reported # <<>>
         /\ HasTool(result.tools, history[j].server, history[j].reported[1])


Reverse(q) == [i \in 1..Len(q) |-> q[Len(q) + 1 - i]]

\* C2: on every exit path, every transport and session that was opened is
\* released exactly once, in the reverse of the order of acquisition.
C2_ReleasedOnceInReverse ==
    /\ \A i, j \in 1..Len(released) : i # j => released[i] # released[j]
    /\ pc \in {"closing", "done"} =>
         /\ Len(released) <= Len(acquired)
         /\ released = SubSeq(Reverse(acquired), 1, Len(released))
    /\ pc = "done" => released = Reverse(acquired)

\* The scope has exited after a pass that opened a transport alone for one
\* server and a transport and a session for another.
C2_Witness ==
    /\ pc = "done"
    /\ Len(released) = 3
    /\ \E i \in 1..Len(history) : history[i].failed = "session"

\* C3: while the toolset is with the caller, the session of every tool is
\* open and initialized; once the scope has exited, nothing the pass opened
\* is open.
C3_SessionsLiveInScopeOnly ==
    /\ pc = "yielded" =>
         \A j \in 1..Len(result.tools) :
            /\ Session(result.tools[j]._session) \in open
            /\ result.tools[j]._session \in initialized
    /\ pc = "done" => open = {}

\* The scope has exited after tools of two servers were with the caller.
C3_Witness ==
    /\ pc = "done"
    /\ \E i, j \in 1..Len(result.tools) :
         result.tools[i]._session # result.tools[j]._session
    /\ Len(released) = 4

NoServers == cfgFile.parsed /\ extract_mcp_servers(cfgFile.data) = <<>>

\* C4: no file: no tools, no path, no errors; a file that cannot be read or
\* parsed: no tools, one error; a document without servers: no tools, one
\* error; the path is reported when found and nothing is opened.
C4_AggregateOutcomes ==
    pc # "start" =>
      /\ ~cfgFile.found =>
           result = [tools |-> <<>>, config_path |-> "None", errors |-> <<>>]
      /\ cfgFile.found /\ ~cfgFile.parsed =>
           /\ result.tools = <<>>
           /\ result.config_path = ".mcp.json"
           /\ Len(result.errors) = 1
           /\ result.errors[1].kind = "failed_to_read"
      /\ NoServers =>
           /\ result.tools = <<>>
           /\ result.config_path = ".mcp.json"
           /\ Len(result.errors) = 1
           /\ result.errors[1].kind = "no_servers"
      /\ ~cfgFile.found \/ ~cfgFile.parsed \/ NoServers =>
           attempts = <<>> /\ acquired = <<>> /\ open = {}

\* The pass over a document that parses and names no server has ended.
C4_Witness ==
    /\ pc = "done"
    /\ NoServers
    /\ cfgFile.data.v # <<>>
    /\ Len(result.errors) = 1

\* The names of the tools of server name in ts, in order.
ToolNamesOf(ts, name) ==
    LET mine == SelectSeq(ts, LAMBDA t : t._session = name)
    IN  [k \in 1..Len(mine) |-> mine[k].name]

\* C5: the errors of a toolset name no server that succeeded, and the tools
\* of every server that succeeded are all there whatever failed elsewhere.
C5_NoErrorForSuccessNoLossOnFailure ==
    Handed =>
      \A i \in 1..Len(history) :
         Succeeded(i) =>
           /\ ErrorsNaming(result.errors, history[i].server) = {}
           /\ ToolNamesOf(result.tools, history[i].server)
                = [k \in 1..Len(history[i].reported) |->
                     history[i].server \o <<"_", "_">> \o history[i].reported[k]]

\* A server succeeded with two tools and a later server failed while its
\* adapters were built.
C5_Witness ==
    /\ Handed
    /\ Len(history) = 2
    /\ Succeeded(1)
    /\ Len(history[1].reported) = 2
    /\ history[2].failed = "build"
    /\ Len(result.errors) = 1


\* C6: every tool name is server, "__", capability, and the names within
\* one toolset are pairwise distinct.
C6_ToolNamesDistinct ==
    pc = "yielded" =>
      /\ \A j \in 1..Len(result.tools) :
           result.tools[j].name
             = result.tools[j].metadata.mcp_server \o <<"_", "_">>
                 \o result.tools[j].metadata.mcp_tool
      /\ \A i, j \in 1..Len(result.tools) :
           i # j => result.tools[i].name # result.tools[j].name

\* "B" < "a" < "a_" by code point.
Rank(name) == CASE name = <<"B">> -> 1
                [] name = <<"a">> -> 2
                [] name = <<"a", "_">> -> 3

\* C7: the servers are processed in lexicographic order of name whatever
\* the order of the document; the tools are ordered by server name and,
\* within a server, as list_tools reported them.
C7_OrderedByNameThenAsReported ==
    /\ \A i, j \in 1..Len(history) :
         i < j => Rank(history[i].server) < Rank(history[j].server)
    /\ \A i, j \in 1..Len(tools) :
         i < j => Rank(tools[i]._session) <= Rank(tools[j]._session)
    /\ Handed =>
         /\ result.tools = tools
         /\ { history[i].server : i \in 1..Len(history) } = ConfigNames
         /\ \A i \in 1..Len(history) :
              LET got == ToolNamesOf(result.tools, history[i].server)
              IN  /\ Len(got) <= Len(history[i].reported)
                  /\ \A k \in 1..Len(got) :
                       got[k] = history[i].server \o <<"_", "_">>
                                  \o history[i].reported[k]

\* The document lists "a_" before "a"; both succeeded and each reported
\* "x" and then "_x".
C7_Witness ==
    /\ Handed
    /\ Len(extract_mcp_servers(cfgFile.data)) = 2
    /\ extract_mcp_servers(cfgFile.data)[1][1] = <<"a", "_">>
    /\ extract_mcp_servers(cfgFile.data)[2][1] = <<"a">>
    /\ Len(result.tools) = 4
    /\ \A i \in 1..2 : history[i].reported = << <<"x">>, <<"_", "x">> >>

\* C8: each invocation of an adapter makes exactly one call_tool, on the
\* session of the adapter's server, with the capability's original name and
\* exactly the named arguments given.
C8_OneCallForwardedVerbatim ==
    lastCall # NoCall =>
      /\ Len(lastCall.calls) = 1
      /\ lastCall.calls[1].session
           = result.tools[lastCall.tool].metadata.mcp_server
      /\ lastCall.calls[1].name = result.tools[lastCall.tool].metadata.mcp_tool
      /\ DOMAIN lastCall.calls[1].arguments = DOMAIN lastCall.kwargs
      /\ \A k \in DOMAIN lastCall.kwargs :
           lastCall.calls[1].arguments[k] = lastCall.kwargs[k]

FailedServers == { i \in 1..Len(history) : ~Succeeded(i) }

\* C9: with the error flag set the invocation fails with the normalized text
\* of the outcome, or the fallback message when that text is empty; without
\* it the invocation returns the normalized text; the failure is not added
\* to the errors of the toolset.
C9_ErrorFlagRaisesWithText ==
    lastCall # NoCall =>
      /\ lastCall.status \in {"ToolException", "returned"} =>
           LET text == format_call_tool_result(lastCall.outcome)
           IN  IF lastCall.outcome.isError
               THEN /\ lastCall.status = "ToolException"
                    /\ lastCall.value # <<>>
                    /\ lastCall.value = IF text = <<>> THEN sFallback ELSE text
               ELSE /\ lastCall.status = "returned"
                    /\ lastCall.value = text
      /\ lastCall.status = "ToolException"
           /\ lastCall.outcome.structuredContent.t = "null"
           /\ lastCall.outcome.content = <<TextBlock(<<"b", "o", "o", "m">>)>>
           => lastCall.value = <<"b", "o", "o", "m">>
      /\ Len(result.errors) = Cardinality(FailedServers)
      /\ result.errors = errors

\* An invocation failed on an outcome whose normalized text is empty.
C9_Witness ==
    /\ lastCall # NoCall
    /\ lastCall.status = "ToolException"
    /\ lastCall.outcome.isError
    /\ format_call_tool_result(lastCall.outcome) = <<>>
    /\ lastCall.value = sFallback
    /\ Len(result.errors) = 1


AttemptsOf(name) == SelectSeq(attempts, LAMBDA a : a.server = name)

\* The field is present and holds a non-empty str.
NonEmptyStr(cfg, key) ==
    \E i \in 1..Len(cfg.v) :
        cfg.v[i][1] = key /\ cfg.v[i][2].t = "str" /\ cfg.v[i][2].v # <<>>

TypeIsSse(cfg) ==
    \E i \in 1..Len(cfg.v) :
        cfg.v[i][1] = <<"t", "y", "p", "e">>
        /\ cfg.v[i][2] = [t |-> "str", v |-> <<"s", "s", "e">>]

\* The executable _normalize_stdio_command resolves, <<>> when it resolves
\* none.
Executable(cfg) ==
    LET n == normalize_stdio_command(DictGet(cfg.v, kCommand),
                                     DictGet(cfg.v, kArgs))
    IN  IF n.raises THEN <<>> ELSE n.command

\* Server i opened (asked to open) exactly the transport of this binding.
Opens(i, binding) ==
    /\ Len(AttemptsOf(history[i].server)) = 1
    /\ AttemptsOf(history[i].server)[1].sel.binding = binding
    /\ history[i].failed # "config"

\* Server i failed with a configuration error before any transport.
ConfigError(i) ==
    /\ AttemptsOf(history[i].server) = <<>>
    /\ history[i].failed = "config"
    /\ \E k \in 1..Len(errors) :
         errors[k].server = history[i].server
         /\ errors[k].exc \in {"ValueError", ""}

\* At most one transport per server, and none that was not selected.
OneTransportEach ==
    /\ \A name \in { queue[i][1] : i \in 1..Len(queue) } :
         Len(AttemptsOf(name)) <= 1
    /\ \A k \in 1..Len(acquired) :
         acquired[k].kind = "transport" =>
           /\ Len(AttemptsOf(acquired[k].server)) = 1
           /\ AttemptsOf(acquired[k].server)[1].sel.binding = acquired[k].binding
           /\ \A m \in 1..Len(acquired) :
                (acquired[m].kind = "transport"
                 /\ acquired[m].server = acquired[k].server) => m = k

\* C10 (as amended): with a command field the transport is stdio, also when
\* a url field is present, and it is opened when a non-empty executable
\* resolves from the field; when none resolves (the field is empty or not a
\* string, or its lexing fails or gives an empty first token) the server
\* fails with a configuration error. Without a command field, a url field
\* holding a non-empty string selects SSE when type is "sse" and streaming
\* HTTP otherwise, and a url field holding anything else is a configuration
\* error. With neither field the server fails with a configuration error.
\* A configuration error opens no transport, and at most one transport is
\* opened per server.
C10_TransportSelection ==
    /\ OneTransportEach
    /\ \A i \in 1..Len(history) :
         LET cfg == queue[i][2]
         IN  /\ queue[i][1] = history[i].server
             /\ IF cfg.t # "dict" THEN ConfigError(i)
                ELSE IF HasKey(cfg.v, kCommand)
                THEN /\ IF Executable(cfg) # <<>>
                        THEN Opens(i, "stdio")
                        ELSE ConfigError(i)
                     /\ ~NonEmptyStr(cfg, kCommand) => ConfigError(i)
                ELSE IF HasKey(cfg.v, kUrl)
                THEN IF NonEmptyStr(cfg, kUrl)
                     THEN Opens(i, IF TypeIsSse(cfg) THEN "sse" ELSE "http")
                     ELSE ConfigError(i)
                ELSE ConfigError(i)

\* C10 as stated: a command field opens a stdio transport; else a url field
\* opens SSE or streaming HTTP by the type marker; else a configuration
\* error.
C10_AsStated ==
    /\ OneTransportEach
    /\ \A i \in 1..Len(history) :
         LET cfg == queue[i][2]
         IN  IF cfg.t # "dict" THEN ConfigError(i)
             ELSE IF HasKey(cfg.v, kCommand) THEN Opens(i, "stdio")
             ELSE IF HasKey(cfg.v, kUrl)
             THEN Opens(i, IF TypeIsSse(cfg) THEN "sse" ELSE "http")
             ELSE ConfigError(i)

\* A server with both command and url opened stdio, and one with a url and
\* type "http" opened streaming HTTP, in one pass.
C10_Witness ==
    /\ Handed
    /\ \E i, j \in 1..Len(history) :
         /\ queue[i][2].t = "dict"
         /\ queue[j][2].t = "dict"
         /\ NonEmptyStr(queue[i][2], kCommand)
         /\ NonEmptyStr(queue[i][2], kUrl)
         /\ Opens(i, "stdio")
         /\ Transport(history[i].server, "stdio") \in open
         /\ ~HasKey(queue[j][2].v, kCommand)
         /\ Opens(j, "http")

\* The value of the field key of the document when it is a mapping, as the
\* document holds it.
GroupOf(d, key) ==
    d.v[CHOOSE i \in 1..Len(d.v) : d.v[i][1] = key /\ d.v[i][2].t = "dict"][2]

HasGroup(d, key) ==
    /\ d.t = "dict"
    /\ \E i \in 1..Len(d.v) : d.v[i][1] = key /\ d.v[i][2].t = "dict"

Extracted == arg.fn = "extract_mcp_servers" /\ ret.done

\* C11: a document whose "mcpServers" field holds a mapping gives exactly
\* that mapping; otherwise a document whose "servers" field holds a mapping
\* gives exactly that mapping; both whatever the other top-level fields are.
C11_GroupReturnedUnchanged ==
    Extracted =>
      /\ HasGroup(arg.data, <<"m", "c", "p", "S", "e", "r", "v", "e", "r", "s">>)
           => ret.value
                = GroupOf(arg.data,
                          <<"m", "c", "p", "S", "e", "r", "v", "e", "r", "s">>).v
      /\ ~HasGroup(arg.data, <<"m", "c", "p", "S", "e", "r", "v", "e", "r", "s">>)
         /\ HasGroup(arg.data, <<"s", "e", "r", "v", "e", "r", "s">>)
           => ret.value
                = GroupOf(arg.data, <<"s", "e", "r", "v", "e", "r", "s">>).v

\* A document with both groups and two server definitions at its top level
\* gave the two entries of its "mcpServers" group.
C11_Witness ==
    /\ Extracted
    /\ HasGroup(arg.data, kMcpServers)
    /\ HasGroup(arg.data, kServers)
    /\ GroupOf(arg.data, kServers).v # <<>>
    /\ Len(arg.data.v) = 4
    /\ arg.data.v[1][1] = nA
    /\ arg.data.v[2][1] = nB
    /\ Len(ret.value) = 2
    /\ ret.value[2] = <<nB, JStr(sNpx)>>

Reserved ==
    { <<"$", "s", "c", "h", "e", "m", "a">>, <<"v", "e", "r", "s", "i", "o", "n">>,
      <<"i", "n", "p", "u", "t", "s">>, <<"e", "n", "v">> }

Indicators ==
    { <<"c", "o", "m", "m", "a", "n", "d">>, <<"u", "r", "l">>,
      <<"t", "y", "p", "e">> }

\* x is an object with a command, url or type key.
IsServerObject(x) ==
    x.t = "dict" /\ \E i \in 1..Len(x.v) : x.v[i][1] \in Indicators

\* The top-level fields of the document that are not reserved keys.
Candidates(d) == SelectSeq(d.v, LAMBDA kv : kv[1] \notin Reserved)

\* C12: for a document without a server group mapping, when every top-level
\* value outside the reserved keys is an object with a command, url or type
\* key, and there is one, the result is the map of these fields (the whole
\* document when it has no reserved key); when one of them lacks such a
\* key or is not an object, or none remains, the result is empty.
C12_FlattenedRootMap ==
    Extracted /\ ~HasGroup(arg.data, kMcpServers) /\ ~HasGroup(arg.data, kServers)
      => IF arg.data.t # "dict" THEN ret.value = <<>>
         ELSE IF /\ Candidates(arg.data) # <<>>
                 /\ \A i \in 1..Len(Candidates(arg.data)) :
                      IsServerObject(Candidates(arg.data)[i][2])
         THEN /\ ret.value = Candidates(arg.data)
              /\ (\A i \in 1..Len(arg.data.v) : arg.data.v[i][1] \notin Reserved)
                   => ret.value = arg.data.v
         ELSE ret.value = <<>>

\* A root map of a url server and of a server with a type key alone, and no
\* other field, was returned whole.
C12_Witness ==
    /\ Extracted
    /\ arg.data.t = "dict"
    /\ Len(arg.data.v) = 2
    /\ arg.data.v[1] = <<nA, cfgHttp>>
    /\ arg.data.v[2] = <<nAU, cfgTypeOnly>>
    /\ ret.value = arg.data.v

Formatted == arg.fn = "_format_call_tool_result" /\ ret.done

\* json.dumps(x, indent=2, ensure_ascii=False) of the structured payloads
\* {"a": 1}, {} and {"a": "ok", "B": 1}.
IndentedJson(x) ==
    CASE x = [t |-> "dict", v |-> <<>>] -> <<"{", "}">>
      [] x = [t |-> "dict", v |-> << <<<<"a">>, [t |-> "num", v |-> <<"1">>]>> >>]
           -> <<"{", "\n", " ", " ", "\"", "a", "\"", ":", " ", "1", "\n", "}">>
      [] OTHER
           -> <<"{", "\n", " ", " ", "\"", "a", "\"", ":", " ", "\"", "o", "k",
                "\"", ",", "\n", " ", " ", "\"", "B", "\"", ":", " ", "1", "\n",
                "}">>

\* The parts of the blocks in order, joined with newlines, empty parts left
\* out.
RECURSIVE PartsJoined(_)
PartsJoined(blocks) ==
    IF blocks = <<>> THEN <<>>
    ELSE LET part == IF Head(blocks).type = "text" THEN Head(blocks).text
                     ELSE Head(blocks).dump
             rest == PartsJoined(Tail(blocks))
         IN  IF part = <<>> THEN rest
             ELSE IF rest = <<>> THEN part
             ELSE part \o <<"\n">> \o rest

\* C13: with a structured payload the result is its indented JSON text
\* whatever the content blocks are; without one it is the text of each text
\* block and the serialization of each other block, in order, joined with
\* newlines, empty parts left out; with neither it is the empty string.
C13_StructuredThenBlocks ==
    Formatted =>
      IF arg.result.structuredContent.t # "null"
      THEN ret.value = IndentedJson(arg.result.structuredContent)
      ELSE /\ ret.value = PartsJoined(arg.result.content)
           /\ arg.result.content = <<>> => ret.value = <<>>

\* The outcome held {"a": 1} and a text block, and the JSON text came back.
C13_Witness ==
    /\ Formatted
    /\ arg.result.structuredContent = Structured
    /\ arg.result.content = <<TextBlock(sBoom)>>
    /\ ret.value = <<"{", "\n", " ", " ", "\"", "a", "\"", ":", " ", "1", "\n", "}">>

NormalizeDone == arg.fn = "_normalize_stdio_command" /\ ret.done

Blank(ch) == ch = " " \/ ch = "\n"

HasBlank(s) == \E i \in 1..Len(s) : Blank(s[i])

HasQuote(s) == \E i \in 1..Len(s) : s[i] = "\""

\* The maximal runs of characters of s that are not whitespace, in order.
RECURSIVE Fields(_)
Fields(s) ==
    IF s = <<>> THEN <<>>
    ELSE IF Blank(Head(s)) THEN Fields(Tail(s))
    ELSE LET n == CHOOSE k \in 1..Len(s) :
                    /\ \A i \in 1..k : ~Blank(s[i])
                    /\ k = Len(s) \/ Blank(s[k + 1])
         IN  <<SubSeq(s, 1, n)>> \o Fields(SubSeq(s, n + 1, Len(s)))

\* C14: with no args, a command string that holds whitespace is split into
\* its tokens, the first is the executable and the others are the arguments
\* in order (for a string without quotes the tokens are its runs of
\* characters that are not whitespace; a quoted part is one token without
\* its quotes); a command without whitespace is the executable itself, with
\* no arguments.
C14_CommandStringSplit ==
    NormalizeDone /\ arg.raw_command.t = "str" /\ arg.raw_args.t = "null" =>
      LET c == arg.raw_command.v
      IN  /\ ~HasBlank(c) =>
                ret.value = [raises |-> FALSE, command |-> c, args |-> <<>>]
          /\ HasBlank(c) /\ ~HasQuote(c) /\ Fields(c) # <<>> =>
                ret.value = [raises |-> FALSE, command |-> Head(Fields(c)),
                             args |-> Tail(Fields(c))]
          /\ HasBlank(c) /\ shlex_split(c).ok /\ shlex_split(c).tokens # <<>> =>
                /\ ~ret.value.raises
                /\ <<ret.value.command>> \o ret.value.args
                     = shlex_split(c).tokens
          /\ c = <<"\"", "n", "\"", " ">> =>
                ret.value = [raises |-> FALSE, command |-> <<"n">>,
                             args |-> <<>>]
          /\ c = <<"\"", " ", "\"", "-">> =>
                ret.value = [raises |-> FALSE, command |-> <<" ", "-">>,
                             args |-> <<>>]

\* "npx -y mcp-remote https://example.com" without args resolved to npx
\* with -y, mcp-remote and https://example.com.
C14_Witness ==
    /\ NormalizeDone
    /\ arg.raw_args.t = "null"
    /\ arg.raw_command.t = "str"
    /\ Len(arg.raw_command.v) = 37
    /\ ret.value.command = <<"n", "p", "x">>
    /\ ret.value.args
         = << <<"-", "y">>,
              <<"m", "c", "p", "-", "r", "e", "m", "o", "t", "e">>,
              << "h", "t", "t", "p", "s", ":", "/", "/", "e", "x", "a", "m",
                 "p", "l", "e", ".", "c", "o", "m" >> >>

\* C18: with a command and an args list, whatever the command string and
\* whatever the list, the empty one included, the executable is the command
\* as given and the arguments are the list as given.
C18_CommandAndArgsAsGiven ==
    NormalizeDone /\ arg.raw_command.t = "str" /\ arg.raw_command.v # <<>>
                  /\ arg.raw_args.t = "list" =>
      /\ ~ret.value.raises
      /\ ret.value.command = arg.raw_command.v
      /\ ret.value.args
           = [i \in 1..Len(arg.raw_args.v) |-> arg.raw_args.v[i].v]

\* What the pass opened for server name.
OpenedFor(name) ==
    { acquired[k] : k \in { m \in 1..Len(acquired) : acquired[m].server = name } }

Registered(cm) == \E k \in 1..Len(stack) : stack[k] = cm

WasReleased(cm) == \E k \in 1..Len(released) : released[k] = cm

\* C15: a server that fails once its transport is open (at session creation,
\* initialize or capability listing) gets one error; what was opened for it
\* stays open and registered until the scope closes, and is released by the
\* time the scope has closed; the servers after it are attempted.
C15_OpenedResourcesKeptToScopeEnd ==
    \A i \in 1..Len(history) :
       history[i].failed \in {"session", "initialize", "list_tools"} =>
         LET name == history[i].server
         IN  /\ \E cm \in OpenedFor(name) : cm.kind = "transport"
             /\ history[i].failed # "session"
                  => \E cm \in OpenedFor(name) : cm.kind = "session"
             /\ Cardinality({ k \in 1..Len(errors) : errors[k].server = name }) = 1
             /\ pc \notin {"closing", "done"} =>
                  \A cm \in OpenedFor(name) :
                     cm \in open /\ Registered(cm) /\ ~WasReleased(cm)
             /\ pc = "closing" =>
                  \A cm \in OpenedFor(name) :
                     /\ WasReleased(cm) <=> cm \notin open
                     /\ WasReleased(cm) <=> ~Registered(cm)
             /\ pc = "done" =>
                  \A cm \in OpenedFor(name) : WasReleased(cm) /\ cm \notin open
             /\ pc \in {"yielded", "closing", "done"} => Len(history) = Len(queue)

\* The first server failed in initialize with its transport and session
\* open, the next one succeeded, and the scope has closed with all four
\* contexts released.
C15_Witness ==
    /\ pc = "done"
    /\ Len(history) = 2
    /\ history[1].failed = "initialize"
    /\ history[2].failed = "none"
    /\ Len(released) = 4
    /\ \A cm \in OpenedFor(history[1].server) : WasReleased(cm)
    /\ Cardinality(OpenedFor(history[1].server)) = 2

\* C16: the transport kind in the metadata of every adapter is stdio, http
\* or sse and is the binding that was opened for the adapter's server.
C16_TransportKindRecorded ==
    \A j \in 1..Len(tools) :
       /\ tools[j].metadata.mcp_transport \in {"stdio", "http", "sse"}
       /\ \E k \in 1..Len(acquired) :
            /\ acquired[k].kind = "transport"
            /\ acquired[k].server = tools[j].metadata.mcp_server
            /\ acquired[k].binding = tools[j].metadata.mcp_transport

\* The field key is present in the object and its value is not of type ty.
WrongType(cfg, key, ty) ==
    \E i \in 1..Len(cfg.v) : cfg.v[i][1] = key /\ cfg.v[i][2].t # ty

Present(cfg, key) == \E i \in 1..Len(cfg.v) : cfg.v[i][1] = key

\* The entry is not an object, or a field has the wrong type, or both
\* command and url are missing.
InvalidShape(cfg) ==
    \/ cfg.t # "dict"
    \/ /\ cfg.t = "dict"
       /\ \/ WrongType(cfg, <<"c", "o", "m", "m", "a", "n", "d">>, "str")
          \/ WrongType(cfg, <<"u", "r", "l">>, "str")
          \/ WrongType(cfg, <<"a", "r", "g", "s">>, "list")
          \/ WrongType(cfg, <<"e", "n", "v">>, "dict")
          \/ /\ ~Present(cfg, <<"c", "o", "m", "m", "a", "n", "d">>)
             /\ ~Present(cfg, <<"u", "r", "l">>)

\* C17: a server definition of invalid shape gets exactly one error when it
\* is processed, no transport is opened for it, it contributes no tool, and
\* the other servers are processed.
C17_InvalidShapeRejected ==
    /\ \A i \in 1..Len(history) :
         InvalidShape(queue[i][2]) =>
           /\ Cardinality({ k \in 1..Len(errors) :
                              errors[k].server = queue[i][1] }) = 1
           /\ \A k \in 1..Len(attempts) : attempts[k].server # queue[i][1]
           /\ \A k \in 1..Len(acquired) : acquired[k].server # queue[i][1]
           /\ \A j \in 1..Len(tools) :
                tools[j].metadata.mcp_server # queue[i][1]
    /\ pc = "yielded" /\ cfgFile.parsed => Len(history) = Len(queue)

\* The command field of the object is null, not a string, the empty string,
\* or a string without any token (whitespace alone).
NoUsableExecutable(cfg) ==
    \E i \in 1..Len(cfg.v) :
       /\ cfg.v[i][1] = <<"c", "o", "m", "m", "a", "n", "d">>
       /\ \/ cfg.v[i][2].t # "str"
          \/ cfg.v[i][2].t = "str" /\ Fields(cfg.v[i][2].v) = <<>>

\* C19: a stdio server definition from which no usable executable resolves
\* fails with a configuration error: one error is recorded for it and no
\* stdio transport is asked to open.
C19_NoExecutableNoTransport ==
    \A i \in 1..Len(history) :
       queue[i][2].t = "dict" /\ NoUsableExecutable(queue[i][2]) =>
         /\ history[i].failed = "config"
         /\ Cardinality({ k \in 1..Len(errors) :
                            /\ errors[k].server = queue[i][1]
                            /\ errors[k].exc = "ValueError" }) = 1
         /\ \A k \in 1..Len(attempts) : attempts[k].server # queue[i][1]

ToolsFrom(ts, name) == { j \in 1..Len(ts) : ts[j].metadata.mcp_server = name }

\* C20: in every toolset each configured server was attempted exactly once
\* and either has no error and one tool per capability it reported, or has
\* exactly one error and no tool at all.
C20_AllToolsOrOneError ==
    pc = "yielded" /\ cfgFile.parsed =>
      /\ Len(history) = Len(queue)
      /\ \A i \in 1..Len(history) :
           /\ history[i].server = queue[i][1]
           /\ \A j \in 1..Len(history) :
                history[j].server = history[i].server => j = i
           /\ LET name == history[i].server
                  errs == { k \in 1..Len(result.errors) :
                              result.errors[k].server = name }
                  mine == ToolsFrom(result.tools, name)
              IN  \/ /\ errs = {}
                     /\ Cardinality(mine) = Len(history[i].reported)
                  \/ /\ Cardinality(errs) = 1
                     /\ mine = {}

====
